---- MODULE Spec2Model ----
(***************************************************************************)
(* rowan-tools lexer utilities: the cursor `State` over a UTF-8 string,    *)
(* the `Consumed` record, `Attach`, `wrap`, `into_iter` and                *)
(* `string_slices` (src/src/lexer/mod.rs, src/src/lexer/consumed.rs).      *)
(*                                                                         *)
(* A string is a sequence of code points (integers); its byte length is    *)
(* the sum of the UTF-8 widths of its code points.  A string slice (&str)  *)
(* is a record [buf, ptr, str]: `ptr` is the address of its first byte,    *)
(* `str` the code points it covers, and `buf` (a history field the code    *)
(* does not have) names the buffer the slice was cut from.                 *)
(***************************************************************************)
EXTENDS Integers, Sequences, FiniteSets, TLC

\* ------------------------------------------------------------------ bounds
\* the longest input of a scan
MaxLen == 2

\* the longest input under a cursor that a caller moves by hand
MaxCursorLen == 3

\* 'a' (one byte) and U+00E9 (two bytes)
Alphabet == {97, 233}

\* the literals the classifier hands to take()
Literals == {<<>>, <<97>>, <<233>>, <<97, 233>>}

\* the predicates the classifier hands to take_while(), as the sets of
\* code points they accept
Predicates == {{}, {97}, {233}, Alphabet}

\* the text of a second, unrelated buffer
OtherText == <<97, 233>>

\* where the allocator put the two buffers
BufAddr == [b \in {"input", "other"} |-> IF b = "input" THEN 4096 ELSE 8192]

\* the strings of at most n code points
Strings(n) == UNION {[1..k -> Alphabet] : k \in 0..n}

\* how many times in a scan the classifier may return without having moved
\* the cursor and still have its token yielded
MaxStalls == 1

\* ------------------------------------------------------------ UTF-8 text
\* char::len_utf8, through TextUnit::of_char
LenUtf8(c) ==
  IF c < 128 THEN 1 ELSE IF c < 2048 THEN 2 ELSE IF c < 65536 THEN 3 ELSE 4

RECURSIVE ByteLen(_)
\* TextUnit::of_str: the byte length of a string
ByteLen(s) == IF s = <<>> THEN 0 ELSE LenUtf8(Head(s)) + ByteLen(Tail(s))

\* str::is_char_boundary: n is 0, the byte length, or the start of a code point
IsCharBoundary(s, n) == \E k \in 0..Len(s) : ByteLen(SubSeq(s, 1, k)) = n

\* the number of code points in the first n bytes (n a boundary)
CharsBefore(s, n) == CHOOSE k \in 0..Len(s) : ByteLen(SubSeq(s, 1, k)) = n

\* &s[n..] on a slice: panics off a boundary or past the end
StrFromLossy(sl, n) ==
  LET whole == {k \in 0..Len(sl.str) : ByteLen(SubSeq(sl.str, 1, k)) <= n}
      k     == IF whole = {} THEN 0
               ELSE CHOOSE x \in whole : \A y \in whole : y <= x
  IN [ok |-> TRUE,
      v  |-> [buf |-> sl.buf, ptr |-> sl.ptr + n,
              str |-> SubSeq(sl.str, k + 1, Len(sl.str))]]

StrFrom(sl, n) ==
  IF IsCharBoundary(sl.str, n)
  THEN [ok |-> TRUE,
        v  |-> [buf |-> sl.buf, ptr |-> sl.ptr + n,
                str |-> SubSeq(sl.str, CharsBefore(sl.str, n) + 1, Len(sl.str))]]
  ELSE [ok |-> FALSE, v |-> sl]

\* &s[..n] on a slice: panics off a boundary or past the end
StrToChars(sl, n) ==
  IF n <= Len(sl.str)
  THEN [ok |-> TRUE,
        v  |-> [buf |-> sl.buf, ptr |-> sl.ptr, str |-> SubSeq(sl.str, 1, n)]]
  ELSE [ok |-> FALSE, v |-> sl]

StrTo(sl, n) ==
  IF IsCharBoundary(sl.str, n)
  THEN [ok |-> TRUE,
        v  |-> [buf |-> sl.buf, ptr |-> sl.ptr,
                str |-> SubSeq(sl.str, 1, CharsBefore(sl.str, n))]]
  ELSE [ok |-> FALSE, v |-> sl]

\* str::starts_with
StartsWith(s, lit) == Len(lit) <= Len(s) /\ SubSeq(s, 1, Len(lit)) = lit

RECURSIVE CharsTakeWhile(_, _)
\* Chars::take_while: the code points before the first one the predicate rejects
CharsTakeWhile(s, pred) ==
  IF s = <<>> \/ Head(s) \notin pred THEN <<>>
  ELSE <<Head(s)>> \o CharsTakeWhile(Tail(s), pred)

\* -------------------------------------------------------------- Consumed
\* Consumed::zero
Zero == [chars |-> 0, bytes |-> 0]

RECURSIVE FromIterLoopAscii(_, _)
FromIterLoopAscii(s, consumed) ==
  IF s = <<>> THEN consumed
  ELSE FromIterLoopAscii(Tail(s), [chars |-> consumed.chars + 1,
                                   bytes |-> consumed.bytes + 1])

RECURSIVE FromIterLoop(_, _)
\* the loop of Consumed::from_iter
FromIterLoop(s, consumed) ==
  IF s = <<>> THEN consumed
  ELSE FromIterLoop(Tail(s), [chars |-> consumed.chars + 1,
                              bytes |-> consumed.bytes + LenUtf8(Head(s))])

\* impl FromIterator<char> for Consumed
FromIter(s) == FromIterLoop(s, [chars |-> 0, bytes |-> 0])

\* Consumed::any
ConsumedAny(c) == c.bytes > 0

\* ----------------------------------------------------------------- State
\* State::new
New(buf, text) == [buf |-> buf, ptr |-> BufAddr[buf], str |-> text]

\* lexer::Error
UnexpectedInput == "UnexpectedInput"
UnexpectedEOF == "UnexpectedEOF"

\* Result values: Ok(v) and Err(e); a panic is [tag |-> "panic"]
Ok(v) == [tag |-> "ok", v |-> v]
Err(e) == [tag |-> "err", e |-> e]
Panic == [tag |-> "panic"]
None == [tag |-> "none"]

\* Consumed::at_least
AtLeastStrict(c, n) == IF c.chars > n THEN Ok(c) ELSE Err(UnexpectedInput)

AtLeast(c, n) == IF c.chars >= n THEN Ok(c) ELSE Err(UnexpectedInput)

\* Consumed::at_most
AtMost(c, n) == IF c.chars <= n THEN Ok(c) ELSE Err(UnexpectedInput)

\* State::peek
PeekSecond(st) ==
  IF Len(st.str) >= 2 THEN Ok(st.str[2]) ELSE Err(UnexpectedEOF)

Peek(st) == IF st.str = <<>> THEN Err(UnexpectedEOF) ELSE Ok(Head(st.str))

\* State::consume
ConsumeSaturating(st, len) ==
  IF len > ByteLen(st.str)
  THEN [ok |-> TRUE,
        v  |-> [buf |-> st.buf, ptr |-> st.ptr + ByteLen(st.str), str |-> <<>>]]
  ELSE StrFrom(st, len)

Consume(st, len) == StrFrom(st, len)

\* State::bump: [ok, st]; ok is FALSE on "bumped past eof"
BumpOneByte(st) ==
  LET c == Peek(st) IN
  IF c.tag = "err" THEN [ok |-> FALSE, st |-> st]
  ELSE LET r == Consume(st, 1) IN [ok |-> r.ok, st |-> r.v]

Bump(st) ==
  LET c == Peek(st) IN
  IF c.tag = "err" THEN [ok |-> FALSE, st |-> st]
  ELSE LET r == Consume(st, LenUtf8(c.v)) IN [ok |-> r.ok, st |-> r.v]

\* State::take: [ok, st, ret]
TakeByChars(st, s) ==
  IF StartsWith(st.str, s)
  THEN LET r == Consume(st, Len(s)) IN
       [ok |-> r.ok, st |-> r.v, ret |-> FromIter(s)]
  ELSE [ok |-> TRUE, st |-> st, ret |-> Zero]

Take(st, s) ==
  IF StartsWith(st.str, s)
  THEN LET r == Consume(st, ByteLen(s)) IN
       [ok |-> r.ok, st |-> r.v, ret |-> FromIter(s)]
  ELSE [ok |-> TRUE, st |-> st, ret |-> Zero]

\* State::take_while: [ok, st, ret]
TakeWhileFirst(st, predicate) ==
  LET hit == st.str # <<>> /\ Head(st.str) \in predicate
      consumed == FromIter(IF hit THEN <<Head(st.str)>> ELSE <<>>)
      r == Consume(st, consumed.bytes)
  IN [ok |-> r.ok, st |-> r.v, ret |-> consumed]

TakeWhile(st, predicate) ==
  LET consumed == FromIter(CharsTakeWhile(st.str, predicate))
      r == Consume(st, consumed.bytes)
  IN [ok |-> r.ok, st |-> r.v, ret |-> consumed]

\* TextUnit - TextUnit: a u32 subtraction; an overflow panics where overflow
\* checks are compiled in and wraps where they are not.  A wrapped result
\* 2^32 + (a - b) is written as its two's complement a - b < 0: it is no
\* boundary of any string here, as the u32 value is past the end of all of them
U32Sub(a, b, checks) ==
  IF a >= b THEN Ok(a - b)
  ELSE IF checks THEN Panic ELSE Ok(a - b)

\* impl Sub for State
Sub(self, prev, checks) ==
  LET self_ptr == self.ptr
      prev_ptr == self.ptr
  IN IF ~(self_ptr >= prev_ptr /\ self_ptr < prev_ptr + ByteLen(prev.str))
     THEN Panic
     ELSE U32Sub(ByteLen(prev.str), ByteLen(self.str), checks)

\* ---------------------------------------------------------------- Attach
\* impl From<Error> for TokenKind (the examples' token kind)
FromError(err) == "Error"

\* impl Attach for Result<T, Error>
AttachDropErr(result, len) ==
  IF result.tag = "ok" THEN [kind |-> result.v, len |-> len]
  ELSE [kind |-> FromError(result.e), len |-> 0]

Attach(result, len) ==
  IF result.tag = "ok" THEN [kind |-> result.v, len |-> len]
  ELSE [kind |-> FromError(result.e), len |-> len]

\* ------------------------------------------------------------------ wrap
WrapIsEndShort(start) == Len(start.str) <= 1

\* wrap, up to the call of the classifier: TRUE when it returns None
WrapIsEnd(start) == start.str = <<>>

\* wrap, after the classifier returned `output` and left the cursor at `st`:
\* Panic, or Ok(token)
WrapFinishChars(start, st, output, debugBuild) ==
  LET len == Len(start.str) - Len(st.str) IN
  IF debugBuild /\ len = 0 THEN Panic ELSE Ok(Attach(output, len))

WrapFinish(start, st, output, debugBuild) ==
  LET len == Sub(st, start, debugBuild) IN
  IF len.tag = "panic" THEN Panic
  ELSE IF debugBuild /\ len.v = 0 THEN Panic
  ELSE Ok(Attach(output, len.v))

\* what the classifier may return
Outcomes == {Ok("Word"), Err(UnexpectedInput), Err(UnexpectedEOF)}

\* ----------------------------------------------------------------- state
VARIABLES
  debug,       \* the build has debug assertions and overflow checks
  input,       \* the buffer being scanned
  remaining,   \* into_iter's `remaining`
  sremaining,  \* string_slices' `remaining`
  start,       \* wrap's `start`
  state,       \* wrap's `state`, the cursor the classifier moves
  pc,          \* "ready"; "extracting": a classifier (or any caller) holds the
               \* cursor `state`; "done": end of stream; "panicked"
  tokens,      \* the (kind, len) pairs into_iter has yielded
  slices,      \* the (kind, text) pairs string_slices has yielded
  calls,       \* how many times the classifier was invoked
  ends,        \* how many pulls returned None
  at,          \* where the classifier is in its code: "free" for an arbitrary
               \* classifier, else a place in MathLexer::next's closure
  last         \* the most recent call and what it returned

vars == <<debug, input, remaining, sremaining, start, state, pc, tokens,
          slices, calls, ends, at, last>>

Init ==
  /\ debug \in BOOLEAN
  /\ input \in Strings(MaxLen)
  /\ remaining = New("input", input)
  /\ sremaining = New("input", input)
  /\ start = New("input", input)
  /\ state = New("input", input)
  /\ pc = "ready"
  /\ tokens = <<>>
  /\ slices = <<>>
  /\ calls = 0
  /\ ends = 0
  /\ at = "free"
  /\ last = [name |-> "init"]

\* ------------------------------------------------------- cursor operations
\* the classifier calls state.peek()
DoPeek ==
  /\ pc = "extracting"
  /\ at = "free"
  /\ last' = [name |-> "peek", pre |-> state, ret |-> Peek(state)]
  /\ UNCHANGED <<debug, input, remaining, sremaining, start, state, pc,
                 tokens, slices, calls, ends, at>>

\* the classifier calls state.bump()
DoBump ==
  /\ pc = "extracting"
  /\ at = "free"
  /\ LET r == Bump(state) IN
       /\ state' = r.st
       /\ pc' = IF r.ok THEN pc ELSE "panicked"
       /\ last' = [name |-> "bump", pre |-> state, ok |-> r.ok]
  /\ UNCHANGED <<debug, input, remaining, sremaining, start, tokens, slices,
                 calls, ends, at>>

\* the classifier calls state.take(s)
DoTake ==
  /\ pc = "extracting"
  /\ at = "free"
  /\ \E s \in Literals :
       LET r == Take(state, s) IN
         /\ state' = r.st
         /\ pc' = IF r.ok THEN pc ELSE "panicked"
         /\ last' = [name |-> "take", pre |-> state, arg |-> s, ok |-> r.ok,
                     ret |-> r.ret]
  /\ UNCHANGED <<debug, input, remaining, sremaining, start, tokens, slices,
                 calls, ends, at>>

\* the classifier calls state.take_while(predicate)
DoTakeWhile ==
  /\ pc = "extracting"
  /\ at = "free"
  /\ \E predicate \in Predicates :
       LET r == TakeWhile(state, predicate) IN
         /\ state' = r.st
         /\ pc' = IF r.ok THEN pc ELSE "panicked"
         /\ last' = [name |-> "take_while", pre |-> state, arg |-> predicate,
                     ok |-> r.ok, ret |-> r.ret]
  /\ UNCHANGED <<debug, input, remaining, sremaining, start, tokens, slices,
                 calls, ends, at>>

\* the classifier calls state.consume(len)
DoConsume ==
  /\ pc = "extracting"
  /\ at = "free"
  /\ \E len \in 0..(ByteLen(input) + 1) :
       LET r == Consume(state, len) IN
         /\ state' = r.v
         /\ pc' = IF r.ok THEN pc ELSE "panicked"
         /\ last' = [name |-> "consume", pre |-> state, arg |-> len, ok |-> r.ok]
  /\ UNCHANGED <<debug, input, remaining, sremaining, start, tokens, slices,
                 calls, ends, at>>

\* the most recent call returned a Consumed record
HasRecord ==
  \/ last.name \in {"take", "take_while"}
  \/ last.name \in {"at_least", "at_most"} /\ last.ret.tag = "ok"

LastRecord ==
  IF last.name \in {"take", "take_while"} THEN last.ret ELSE last.ret.v

\* the classifier calls at_least(n) on the record it just got
DoAtLeast ==
  /\ pc = "extracting"
  /\ at = "free"
  /\ HasRecord
  /\ \E n \in 0..(MaxCursorLen + 1) :
       last' = [name |-> "at_least", pre |-> state, rec |-> LastRecord,
                n |-> n, ret |-> AtLeast(LastRecord, n)]
  /\ UNCHANGED <<debug, input, remaining, sremaining, start, state, pc,
                 tokens, slices, calls, ends, at>>

\* the classifier calls at_most(n) on the record it just got
DoAtMost ==
  /\ pc = "extracting"
  /\ at = "free"
  /\ HasRecord
  /\ \E n \in 0..(MaxCursorLen + 1) :
       last' = [name |-> "at_most", pre |-> state, rec |-> LastRecord,
                n |-> n, ret |-> AtMost(LastRecord, n)]
  /\ UNCHANGED <<debug, input, remaining, sremaining, start, state, pc,
                 tokens, slices, calls, ends, at>>

\* -------------------------------------------------------------- the scan
\* how many times a finished sequence is pulled again
MaxEnds == 2

\* into_iter, when f returns None: `?` returns None and leaves `remaining`;
\* `whole` is the slice the sequence was built over
IterEndRestart(rem, whole) == whole

IterEnd(rem, whole) == rem

\* into_iter, when f returns a token of length len: remaining = &remaining[len..]
IterAdvanceChars(rem, len) ==
  IF len \in 0..Len(rem.str)
  THEN [ok |-> TRUE,
        v  |-> [buf |-> rem.buf, ptr |-> rem.ptr + len,
                str |-> SubSeq(rem.str, len + 1, Len(rem.str))]]
  ELSE [ok |-> FALSE, v |-> rem]

IterAdvance(rem, len) == StrFrom(rem, len)

\* the closure of string_slices on one (token, len) pair: [ok, text, rest]
SliceStepStay(srem, len) ==
  LET slice == StrTo(srem, len) IN
  [ok |-> slice.ok, text |-> slice.v, rest |-> srem]

SliceStep(srem, len) ==
  LET slice == StrTo(srem, len)
      rest  == StrFrom(srem, len)
  IN [ok |-> slice.ok /\ rest.ok, text |-> slice.v, rest |-> rest.v]

\* a pull on string_slices(input, into_iter(input, |s| wrap(s, classifier))),
\* up to the point where wrap returns None or calls the classifier; the
\* classifier starts at place `entry` of its code
PullTo(entry) ==
  /\ pc \in {"ready", "done"}
  /\ start' = remaining
  /\ IF WrapIsEnd(remaining)
     THEN /\ ends < MaxEnds
          /\ pc' = "done"
          /\ ends' = ends + 1
          /\ remaining' = IterEnd(remaining, New("input", input))
          /\ last' = [name |-> "wrap", start |-> remaining, end |-> remaining,
                      output |-> None, invoked |-> FALSE, ret |-> None]
          /\ UNCHANGED <<state, calls, at>>
     ELSE /\ pc' = "extracting"
          /\ state' = remaining
          /\ calls' = calls + 1
          /\ at' = entry
          /\ last' = [name |-> "classify", start |-> remaining]
          /\ UNCHANGED <<ends, remaining>>
  /\ UNCHANGED <<debug, input, sremaining, tokens, slices>>

\* a pull, with an arbitrary classifier
Pull == at = "free" /\ PullTo("free")

\* the number of tokens of length 0 among the yielded ones
Stalls(toks) == Cardinality({i \in 1..Len(toks) : toks[i].len = 0})

\* the classifier returns `output`: the rest of wrap, then into_iter's and
\* string_slices' closures
Finish(output) ==
  /\ pc = "extracting"
  /\ LET r    == WrapFinish(start, state, output, debug)
         len  == IF r.tag = "ok" THEN r.v.len ELSE 0
         rest == IterAdvance(remaining, len)
         sl   == SliceStep(sremaining, len)
         ok   == r.tag = "ok" /\ rest.ok /\ sl.ok
     IN /\ last' = [name |-> "wrap", start |-> start, end |-> state,
                    output |-> output, invoked |-> TRUE,
                    ret |-> IF ok THEN r ELSE Panic]
        /\ IF ok
           THEN /\ len = 0 => Stalls(tokens) < MaxStalls
                /\ pc' = "ready"
                /\ remaining' = rest.v
                /\ tokens' = Append(tokens, r.v)
                /\ sremaining' = sl.rest
                /\ slices' = Append(slices, [kind |-> r.v.kind, text |-> sl.text])
           ELSE /\ pc' = "panicked"
                /\ UNCHANGED <<remaining, tokens, sremaining, slices>>
  /\ UNCHANGED <<debug, input, start, state, calls, ends>>

\* an arbitrary classifier returns
Return ==
  /\ at = "free"
  /\ \E output \in Outcomes : Finish(output)
  /\ UNCHANGED at

\* every cursor over the text of buffer buf
CursorsOver(buf, text) ==
  {StrFrom(New(buf, text), ByteLen(SubSeq(text, 1, k))).v : k \in 0..Len(text)}

\* the cursors a caller can hold
Cursors == {start, state} \cup CursorsOver("other", OtherText)

\* a caller computes cur - prev
DoSub ==
  /\ pc \in {"ready", "extracting", "done"}
  /\ at = "free"
  /\ \E cur \in Cursors, prev \in Cursors :
       LET r == Sub(cur, prev, debug) IN
         /\ last' = [name |-> "sub", cur |-> cur, prev |-> prev, ret |-> r]
         /\ pc' = IF r.tag = "panic" THEN "panicked" ELSE pc
  /\ UNCHANGED <<debug, input, remaining, sremaining, start, state, tokens,
                 slices, calls, ends, at>>

Next == Pull \/ DoPeek \/ DoBump \/ DoTake \/ DoTakeWhile \/ Return

Spec == Init /\ [][Next]_vars

TypeOK ==
  /\ debug \in BOOLEAN
  /\ input \in Seq(Nat)
  /\ pc \in {"ready", "extracting", "done", "panicked"}
  /\ calls \in Nat
  /\ ends \in 0..MaxEnds
  /\ remaining.str = sremaining.str
  /\ Len(tokens) = Len(slices)

\* a caller holds a fresh cursor over the input and a copy of it, moves the
\* cursor, and subtracts cursors
InitCursor ==
  /\ debug \in BOOLEAN
  /\ input \in Strings(MaxCursorLen)
  /\ remaining = New("input", input)
  /\ sremaining = New("input", input)
  /\ start = New("input", input)
  /\ state = New("input", input)
  /\ pc = "extracting"
  /\ tokens = <<>>
  /\ slices = <<>>
  /\ calls = 0
  /\ ends = 0
  /\ at = "free"
  /\ last = [name |-> "init"]

NextCursor ==
  \/ DoPeek \/ DoBump \/ DoTake \/ DoTakeWhile \/ DoConsume
  \/ DoAtLeast \/ DoAtMost \/ DoSub

SpecCursor == InitCursor /\ [][NextCursor]_vars

\* ------------------------------------------- examples/lexer_struct.rs
\* "1 + 2.3 + 4. + .5"
ExampleText ==
  <<49, 32, 43, 32, 50, 46, 51, 32, 43, 32, 52, 46, 32, 43, 32, 46, 53>>

\* the inputs of the example lexer: the text of main, and "a+"
ExampleInputs == {ExampleText, <<97, 43>>}

\* char::is_whitespace: the code points with the White_Space property
IsWhitespace ==
  (9..13) \cup {32, 133, 160, 5760} \cup (8192..8202)
    \cup {8232, 8233, 8239, 8287, 12288}

\* |c| c.is_digit(10)
IsDigit == 48..57

\* what the closure of MathLexer::next returns from each of its exits; the
\* `?` after at_least(1) returns the error
ClassifiedLax(exit) ==
  CASE exit = "ws_ret"    -> Ok("Whitespace")
    [] exit = "int_ret"   -> Ok("Integer")
    [] exit = "float_ret" -> Ok("Float")
    [] exit = "err_ret"   -> Ok("Float")
    [] exit = "add_ret"   -> Ok("Add")
    [] exit = "other_ret" -> Err(UnexpectedInput)

Classified(exit) ==
  CASE exit = "ws_ret"    -> Ok("Whitespace")
    [] exit = "int_ret"   -> Ok("Integer")
    [] exit = "float_ret" -> Ok("Float")
    [] exit = "err_ret"   -> Err(UnexpectedInput)
    [] exit = "add_ret"   -> Ok("Add")
    [] exit = "other_ret" -> Err(UnexpectedInput)

ExampleExits ==
  {"ws_ret", "int_ret", "float_ret", "err_ret", "add_ret", "other_ret"}

\* MathLexer::new, under string_slices
InitExample ==
  /\ debug \in BOOLEAN
  /\ input \in ExampleInputs
  /\ remaining = New("input", input)
  /\ sremaining = New("input", input)
  /\ start = New("input", input)
  /\ state = New("input", input)
  /\ pc = "ready"
  /\ tokens = <<>>
  /\ slices = <<>>
  /\ calls = 0
  /\ ends = 0
  /\ at = "idle"
  /\ last = [name |-> "init"]

\* MathLexer::next calls wrap(self.state, closure)
ExPull == at = "idle" /\ PullTo("peek")

\* match state.peek().unwrap()
ExPeek ==
  /\ pc = "extracting"
  /\ at = "peek"
  /\ LET c == Peek(state) IN
       /\ last' = [name |-> "peek", pre |-> state, ret |-> c]
       /\ IF c.tag = "err"
          THEN pc' = "panicked" /\ at' = at
          ELSE /\ pc' = pc
               /\ at' = IF c.v \in IsWhitespace THEN "ws"
                        ELSE IF c.v = 46 \/ c.v \in IsDigit THEN "digits"
                        ELSE IF c.v = 43 THEN "add"
                        ELSE "other"
  /\ UNCHANGED <<debug, input, remaining, sremaining, start, state, tokens,
                 slices, calls, ends>>

\* state.take_while(char::is_whitespace); Ok(TokenKind::Whitespace)
ExWhitespace ==
  /\ pc = "extracting"
  /\ at = "ws"
  /\ LET r == TakeWhile(state, IsWhitespace) IN
       /\ state' = r.st
       /\ pc' = IF r.ok THEN pc ELSE "panicked"
       /\ at' = "ws_ret"
       /\ last' = [name |-> "take_while", pre |-> state, arg |-> IsWhitespace,
                   ok |-> r.ok, ret |-> r.ret]
  /\ UNCHANGED <<debug, input, remaining, sremaining, start, tokens, slices,
                 calls, ends>>

\* state.take_while(|c| c.is_digit(10))
ExDigits ==
  /\ pc = "extracting"
  /\ at = "digits"
  /\ LET r == TakeWhile(state, IsDigit) IN
       /\ state' = r.st
       /\ pc' = IF r.ok THEN pc ELSE "panicked"
       /\ at' = "dot"
       /\ last' = [name |-> "take_while", pre |-> state, arg |-> IsDigit,
                   ok |-> r.ok, ret |-> r.ret]
  /\ UNCHANGED <<debug, input, remaining, sremaining, start, tokens, slices,
                 calls, ends>>

\* if state.take(".").any() { ... } else { Ok(TokenKind::Integer) }
ExDot ==
  /\ pc = "extracting"
  /\ at = "dot"
  /\ LET r == Take(state, <<46>>) IN
       /\ state' = r.st
       /\ pc' = IF r.ok THEN pc ELSE "panicked"
       /\ at' = IF ConsumedAny(r.ret) THEN "fraction" ELSE "int_ret"
       /\ last' = [name |-> "take", pre |-> state, arg |-> <<46>>, ok |-> r.ok,
                   ret |-> r.ret]
  /\ UNCHANGED <<debug, input, remaining, sremaining, start, tokens, slices,
                 calls, ends>>

\* state.take_while(|c| c.is_digit(10)).at_least(1)?; Ok(TokenKind::Float)
ExFraction ==
  /\ pc = "extracting"
  /\ at = "fraction"
  /\ LET r == TakeWhile(state, IsDigit)
         b == AtLeast(r.ret, 1)
     IN
       /\ state' = r.st
       /\ pc' = IF r.ok THEN pc ELSE "panicked"
       /\ at' = IF b.tag = "ok" THEN "float_ret" ELSE "err_ret"
       /\ last' = [name |-> "at_least", pre |-> r.st, rec |-> r.ret, n |-> 1,
                   ret |-> b]
  /\ UNCHANGED <<debug, input, remaining, sremaining, start, tokens, slices,
                 calls, ends>>

\* state.bump(), in the arms '+' and _
ExBump ==
  /\ pc = "extracting"
  /\ at \in {"add", "other"}
  /\ LET r == Bump(state) IN
       /\ state' = r.st
       /\ pc' = IF r.ok THEN pc ELSE "panicked"
       /\ at' = IF at = "add" THEN "add_ret" ELSE "other_ret"
       /\ last' = [name |-> "bump", pre |-> state, ok |-> r.ok]
  /\ UNCHANGED <<debug, input, remaining, sremaining, start, tokens, slices,
                 calls, ends>>

\* the closure returns; wrap attaches the length, MathLexer::next consumes it
\* from self.state, string_slices cuts the text
ExReturn ==
  /\ at \in ExampleExits
  /\ Finish(Classified(at))
  /\ at' = "idle"

NextExample ==
  \/ ExPull \/ ExPeek \/ ExWhitespace \/ ExDigits \/ ExDot \/ ExFraction
  \/ ExBump \/ ExReturn

SpecExample == InitExample /\ [][NextExample]_vars

\* ---------------------------------------------------------------- claims
RECURSIVE ConcatText(_)
\* the texts of the yielded (kind, text) pairs, one after the other
ConcatText(sls) ==
  IF sls = <<>> THEN <<>> ELSE Head(sls).text.str \o ConcatText(Tail(sls))

RECURSIVE SumLen(_)
SumLen(toks) == IF toks = <<>> THEN 0 ELSE Head(toks).len + SumLen(Tail(toks))

\* C1: losslessness.  When the sequence has reached end of stream, the texts
\* of the yielded tokens, concatenated in yield order, are the input, and the
\* yielded lengths add up to its byte length.
Lossless ==
  pc = "done" =>
    /\ ConcatText(slices) = input
    /\ SumLen(tokens) = ByteLen(input)

LosslessWitness ==
  /\ pc = "done"
  /\ Len(slices) >= 2
  /\ \E i \in 1..Len(input) : input[i] = 233

\* C2: termination.  The number of tokens yielded never exceeds the number of
\* code points of the input.
TokenCountBounded == Len(tokens) <= Len(input)

\* C3: non-empty progress.  Every yielded token has a length greater than 0.
NonEmptyProgress == \A i \in 1..Len(tokens) : tokens[i].len > 0

\* C4: a classifier that returns without having moved the cursor makes wrap
\* panic; wrap yields no token from that call.
StallIsFatal ==
  (last.name = "wrap" /\ last.invoked /\ last.end = last.start)
    => (last.ret.tag = "panic" /\ pc = "panicked")

\* C5: wrap returns None exactly when the remaining input is empty at the
\* start of the call, and then without invoking the classifier; the stream
\* ends only there, and the empty input yields no token.
WrapNoneIffEmpty ==
  /\ last.name = "wrap" =>
       /\ (last.ret.tag = "none") <=> (last.start.str = <<>>)
       /\ last.ret.tag = "none" => ~last.invoked
  /\ last.name = "classify" => last.start.str # <<>>
  /\ pc = "done" => (remaining.str = <<>> /\ calls = Len(tokens))
  /\ input = <<>> => (tokens = <<>> /\ calls = 0)

WrapNoneIffEmptyWitness ==
  /\ pc = "done"
  /\ last.name = "wrap"
  /\ last.ret.tag = "none"
  /\ Len(tokens) >= 2

\* C6: a recoverable error becomes a token.  When wrap returns a token, it is
\* the one yielded: its length is the whole span the cursor advanced, its kind
\* is "Error" when the classifier returned an error and the classifier's kind
\* otherwise, its text is that span, the stream has not ended and the next
\* extraction starts right after the span.
ErrorsBecomeTokens ==
  (last.name = "wrap" /\ last.ret.tag = "ok") =>
    LET tok  == tokens[Len(tokens)]
        span == Len(last.start.str) - Len(last.end.str)
    IN /\ tokens # <<>>
       /\ tok = last.ret.v
       /\ tok.len = ByteLen(last.start.str) - ByteLen(last.end.str)
       /\ tok.kind = IF last.output.tag = "err" THEN "Error" ELSE last.output.v
       /\ slices[Len(slices)].kind = tok.kind
       /\ slices[Len(slices)].text.str = SubSeq(last.start.str, 1, span)
       /\ Len(tokens) = calls
       /\ pc = "ready"
       /\ remaining = last.end

ErrorsBecomeTokensWitness ==
  /\ last.name = "wrap"
  /\ last.ret.tag = "ok"
  /\ last.output = Err(UnexpectedEOF)
  /\ last.ret.v.len >= 2
  /\ remaining.str # <<>>

\* C7: cur - prev panics whenever the two cursors come from different buffers
\* and whenever prev is further ahead than cur.
SubRejectsMisuse ==
  (last.name = "sub" /\ (last.cur.buf # last.prev.buf \/ last.prev.ptr > last.cur.ptr))
    => last.ret.tag = "panic"

\* C8: take(s) never panics; when the remaining input starts with s the cursor
\* advances by the byte length of s and the record holds the character count
\* and byte length of s; otherwise the cursor is unchanged and the record is
\* zero.
TakeContract ==
  last.name = "take" =>
    /\ last.ok
    /\ pc # "panicked"
    /\ IF StartsWith(last.pre.str, last.arg)
       THEN /\ state.str = SubSeq(last.pre.str, Len(last.arg) + 1, Len(last.pre.str))
            /\ state.ptr = last.pre.ptr + ByteLen(last.arg)
            /\ state.buf = last.pre.buf
            /\ last.ret = [chars |-> Len(last.arg), bytes |-> ByteLen(last.arg)]
            /\ ConsumedAny(last.ret) <=> (last.arg # <<>>)
       ELSE /\ state = last.pre
            /\ last.ret = [chars |-> 0, bytes |-> 0]
            /\ ~ConsumedAny(last.ret)

TakeContractWitness ==
  /\ last.name = "take"
  /\ last.arg = <<97, 233>>
  /\ StartsWith(last.pre.str, last.arg)
  /\ state.str # <<>>

\* C9: take_while(predicate) never panics and consumes exactly the longest
\* prefix of the remaining input whose code points all satisfy the predicate.
TakeWhileContract ==
  last.name = "take_while" =>
    LET n == Len(last.pre.str) - Len(state.str) IN
    /\ last.ok
    /\ pc # "panicked"
    /\ n >= 0
    /\ state.str = SubSeq(last.pre.str, n + 1, Len(last.pre.str))
    /\ state.str = <<>> \/ Head(state.str) \notin last.arg
    /\ \A i \in 1..n : last.pre.str[i] \in last.arg
    /\ last.ret.chars = n
    /\ last.ret.bytes = ByteLen(SubSeq(last.pre.str, 1, n))
    /\ state.ptr = last.pre.ptr + last.ret.bytes
    /\ (last.pre.str = <<>> \/ Head(last.pre.str) \notin last.arg)
         => last.ret = [chars |-> 0, bytes |-> 0]

TakeWhileContractWitness ==
  /\ last.name = "take_while"
  /\ last.ret.chars >= 2
  /\ last.ret.bytes > last.ret.chars
  /\ state.str # <<>>

\* C10: peek returns the first code point of the remaining input, or
\* UnexpectedEOF exactly when none remains, and leaves the cursor where it
\* was; a peek right after a peek returns the same.
PeekContract ==
  /\ [](last.name = "peek" =>
          /\ state = last.pre
          /\ pc = "extracting"
          /\ IF last.pre.str = <<>>
             THEN last.ret.tag = "err" /\ last.ret.e = "UnexpectedEOF"
             ELSE last.ret.tag = "ok" /\ last.ret.v = last.pre.str[1])
  /\ [][(last.name = "peek" /\ last'.name = "peek") => last' = last]_vars

PeekContractWitness ==
  /\ last.name = "peek"
  /\ last.ret.tag = "ok"
  /\ last.ret.v = 233
  /\ Len(state.str) >= 2
  /\ state.ptr > start.ptr

\* C11: bump advances the cursor past exactly one code point, by its encoded
\* width, when input remains, and panics, leaving the cursor, when none does.
BumpContract ==
  last.name = "bump" =>
    IF last.pre.str = <<>>
    THEN ~last.ok /\ pc = "panicked" /\ state = last.pre
    ELSE /\ last.ok
         /\ pc = "extracting"
         /\ state.str = Tail(last.pre.str)
         /\ state.buf = last.pre.buf
         /\ state.ptr = last.pre.ptr + (IF last.pre.str[1] = 233 THEN 2 ELSE 1)

BumpContractWitness ==
  /\ last.name = "bump"
  /\ last.ok
  /\ last.pre.str[1] = 233
  /\ state.str # <<>>

\* C12: at_least(n) returns the record itself exactly when its character count
\* is at least n, at_most(n) exactly when it is at most n; each returns
\* UnexpectedInput otherwise, and neither moves the cursor.
BoundChecks ==
  /\ last.name = "at_least" =>
       /\ (last.ret.tag = "ok") <=> (last.rec.chars >= last.n)
       /\ last.ret.tag = "ok" => last.ret.v = last.rec
       /\ last.ret.tag # "ok" => (last.ret.tag = "err" /\ last.ret.e = "UnexpectedInput")
       /\ state = last.pre
       /\ pc = "extracting"
  /\ last.name = "at_most" =>
       /\ (last.ret.tag = "ok") <=> (last.rec.chars <= last.n)
       /\ last.ret.tag = "ok" => last.ret.v = last.rec
       /\ last.ret.tag # "ok" => (last.ret.tag = "err" /\ last.ret.e = "UnexpectedInput")
       /\ state = last.pre
       /\ pc = "extracting"

BoundChecksWitness ==
  /\ last.name = "at_least"
  /\ last.rec.chars = 2
  /\ last.rec.bytes = 3
  /\ last.n = 2
  /\ last.ret.tag = "ok"

\* C14: under any sequence of peek, bump, take, take_while and consume calls
\* the cursor stays in its buffer, at most at its end and on a code point
\* boundary, with exactly the text from there on remaining; it never moves
\* back, and a call that panics leaves it where it was.
CursorInvariant ==
  /\ [](LET off == state.ptr - BufAddr["input"] IN
          /\ state.buf = "input"
          /\ off \in 0..ByteLen(input)
          /\ IsCharBoundary(input, off)
          /\ state.str = SubSeq(input, CharsBefore(input, off) + 1, Len(input)))
  /\ [][/\ state'.ptr >= state.ptr
        /\ pc' = "panicked" => state' = state]_vars

CursorInvariantWitness ==
  /\ last.name = "consume"
  /\ ~last.ok
  /\ pc = "panicked"
  /\ last.arg < ByteLen(last.pre.str)
  /\ state.ptr > start.ptr

\* C15: a record returned by take or take_while counts the code points the
\* cursor advanced over and the bytes it moved, which is the sum of their
\* encoded widths; any() holds exactly when a character was consumed.
RecordInvariant ==
  last.name \in {"take", "take_while"} =>
    LET n == Len(last.pre.str) - Len(state.str) IN
    /\ last.ret.chars = n
    /\ last.ret.bytes = state.ptr - last.pre.ptr
    /\ last.ret.bytes = ByteLen(SubSeq(last.pre.str, 1, n))
    /\ ConsumedAny(last.ret) <=> (last.ret.chars > 0)
    /\ ConsumedAny(last.ret) <=> (state.ptr > last.pre.ptr)

RecordInvariantWitness ==
  /\ last.name = "take_while"
  /\ last.ret.chars = 3
  /\ last.ret.bytes = 5

\* C17: for a cursor cur reached from prev on the same buffer, also when no
\* call was made in between and when prev is at the end of the input,
\* cur - prev returns the number of bytes between them.
SubMeasuresDistance ==
  (last.name = "sub" /\ last.cur.buf = last.prev.buf /\ last.cur.ptr >= last.prev.ptr)
    => (last.ret.tag = "ok" /\ last.ret.v = ByteLen(last.prev.str) - ByteLen(last.cur.str))

\* the code points of text that lie in the bytes [off, off + len)
ByteSub(text, off, len) ==
  LET I == {i \in 1..Len(text) :
              /\ off <= ByteLen(SubSeq(text, 1, i - 1))
              /\ ByteLen(SubSeq(text, 1, i)) <= off + len}
      lo == IF I = {} THEN 1 ELSE CHOOSE i \in I : \A j \in I : i <= j
  IN [j \in 1..Cardinality(I) |-> text[lo + j - 1]]

\* C16: string_slices yields one pair per (kind, length) pair, in order: the
\* k-th has the k-th kind and the bytes [offset, offset + length) of the
\* buffer, the offset being the sum of the earlier lengths.
SlicesFollowOffsets ==
  /\ Len(slices) = Len(tokens)
  /\ \A k \in 1..Len(slices) :
       LET off == SumLen(SubSeq(tokens, 1, k - 1)) IN
       /\ slices[k].kind = tokens[k].kind
       /\ slices[k].text.buf = "input"
       /\ slices[k].text.ptr = BufAddr["input"] + off
       /\ slices[k].text.str = ByteSub(input, off, tokens[k].len)

SlicesFollowOffsetsWitness ==
  /\ Len(slices) >= 2
  /\ tokens[1].len = 2
  /\ tokens[2].len = 1
  /\ slices[2].text.str = <<97>>

\* C18: once a pull has signalled end of stream, the position is the end of
\* the buffer and every later pull signals end of stream again: no token is
\* yielded, the classifier is not invoked and the position stays.
DoneIsTerminal ==
  /\ [](pc = "done" =>
          /\ ends >= 1
          /\ remaining.str = <<>>
          /\ remaining.ptr = BufAddr["input"] + ByteLen(input))
  /\ [][pc = "done" =>
          /\ pc' = "done"
          /\ tokens' = tokens
          /\ slices' = slices
          /\ calls' = calls
          /\ remaining' = remaining]_vars

DoneIsTerminalWitness ==
  /\ pc = "done"
  /\ ends >= 2
  /\ tokens # <<>>
  /\ last.name = "wrap"
  /\ last.ret.tag = "none"

\* C19: a pull invokes the classifier at most once and yields at most one
\* token, and the position of the sequence is always the sum of the lengths of
\* the tokens yielded so far, with all the input after it still to be scanned.
PullDriven ==
  /\ [](/\ remaining.ptr = BufAddr["input"] + SumLen(tokens)
        /\ remaining.str =
             ByteSub(input, SumLen(tokens), ByteLen(input) - SumLen(tokens))
        /\ Len(tokens) <= calls
        /\ calls <= Len(tokens) + 1
        /\ pc \in {"ready", "done"} => calls = Len(tokens))
  /\ [][/\ Len(tokens') <= Len(tokens) + 1
        /\ calls' + ends' <= calls + ends + 1
        /\ Len(tokens') > Len(tokens) => (calls' = calls /\ ends' = ends)]_vars

PullDrivenWitness ==
  /\ pc = "ready"
  /\ Len(tokens) = 1
  /\ tokens[1].len = 2
  /\ remaining.str # <<>>

\* C20: wrap runs the classifier on its own copy of the cursor: while the
\* classifier moves it the caller's cursor stays at the position before the
\* extraction, and when wrap has returned a token the caller advances by the
\* returned length, which brings it to where the classifier's cursor was.
WrapLeavesCaller ==
  /\ [](pc = "extracting" => (remaining = start /\ state.ptr >= remaining.ptr))
  /\ []((last.name = "wrap" /\ last.ret.tag = "ok") =>
          /\ remaining.ptr = last.start.ptr + last.ret.v.len
          /\ remaining = last.end)
  /\ []((last.name = "wrap" /\ last.ret.tag = "panic") => remaining = last.start)
  /\ [][(pc = "extracting" /\ pc' \in {"extracting", "panicked"})
          => remaining' = remaining]_vars

WrapLeavesCallerWitness ==
  /\ pc = "extracting"
  /\ state.ptr > remaining.ptr
  /\ state.str = <<>>
  /\ Len(remaining.str) = 2
  /\ tokens = <<>>

\* the tokens main of examples/lexer_struct.rs expects, as (kind, text)
ExampleTokens ==
  << [kind |-> "Integer",    text |-> <<49>>],
     [kind |-> "Whitespace", text |-> <<32>>],
     [kind |-> "Add",        text |-> <<43>>],
     [kind |-> "Whitespace", text |-> <<32>>],
     [kind |-> "Float",      text |-> <<50, 46, 51>>],
     [kind |-> "Whitespace", text |-> <<32>>],
     [kind |-> "Add",        text |-> <<43>>],
     [kind |-> "Whitespace", text |-> <<32>>],
     [kind |-> "Error",      text |-> <<52, 46>>],
     [kind |-> "Whitespace", text |-> <<32>>],
     [kind |-> "Add",        text |-> <<43>>],
     [kind |-> "Whitespace", text |-> <<32>>],
     [kind |-> "Float",      text |-> <<46, 53>>] >>

\* C13: scanning "1 + 2.3 + 4. + .5" with the example lexer never panics,
\* yields the expected tokens in order, and has yielded all thirteen of them
\* when it signals end of stream.
ExampleScan ==
  input = ExampleText =>
    LET got == [k \in 1..Len(slices) |->
                  [kind |-> slices[k].kind, text |-> slices[k].text.str]]
    IN /\ pc # "panicked"
       /\ Len(got) <= Len(ExampleTokens)
       /\ got = SubSeq(ExampleTokens, 1, Len(got))
       /\ pc = "done" => Len(got) = Len(ExampleTokens)

ExampleScanWitness ==
  /\ input = ExampleText
  /\ pc = "done"
  /\ Len(slices) = 13
  /\ slices[9].kind = "Error"

\* C21: consume(len) advances the cursor by exactly len bytes, dropping the
\* code points those bytes encode, when len is at most the remaining length
\* and falls on a code point boundary of the remaining input; otherwise (len
\* past the end, or inside a code point) it panics and no advanced cursor
\* exists: the cursor is where it was.
ConsumeContract ==
  last.name = "consume" =>
    LET pre  == last.pre
        len  == last.arg
        cuts == {k \in 0..Len(pre.str) : ByteLen(SubSeq(pre.str, 1, k)) = len}
    IN /\ last.ok <=> cuts # {}
       /\ cuts # {} =>
            /\ pc # "panicked"
            /\ state.buf = pre.buf
            /\ state.ptr = pre.ptr + len
            /\ ByteLen(state.str) = ByteLen(pre.str) - len
            /\ \A k \in cuts : pre.str = SubSeq(pre.str, 1, k) \o state.str
       /\ cuts = {} =>
            /\ len > ByteLen(pre.str) \/ len \in 1..(ByteLen(pre.str) - 1)
            /\ pc = "panicked"
            /\ state = pre

ConsumeContractWitness ==
  /\ last.name = "consume"
  /\ last.arg = 1
  /\ Len(last.pre.str) >= 2
  /\ Head(last.pre.str) = 233
  /\ ~last.ok
  /\ pc = "panicked"
  /\ state = last.pre

====
